---- MODULE Spec2Model ----
(***************************************************************************)
(* ProductsService (src/src/products/products.service.ts): an in-memory    *)
(* array of Product records with create, paginated findAll, findOne,       *)
(* partial update and soft-delete remove.                                  *)
(*                                                                         *)
(* A JavaScript object is a function from its keys to their values, so an  *)
(* absent key (description not given) is a key outside the DOMAIN.  Array  *)
(* positions are 1-based here and 0-based in the source: FindIndex gives   *)
(* 0 where findIndex gives -1.                                             *)
(***************************************************************************)
EXTENDS Integers, Sequences, FiniteSets, TLC

VARIABLES products, clock, issued, removed, calls, ret, inflight

vars == <<products, clock, issued, removed, calls, ret, inflight>>

(* ------------------------------ bounds -------------------------------- *)

\* Number of successful create, update and remove calls explored.
MaxCalls == 3

\* Largest value the system clock reaches.
MaxClock == 1

(* ------------------------- program constants --------------------------- *)

DefaultPage == 1

DefaultLimit == 10

MaxLimit == 100

(* ------------------------------ inputs --------------------------------- *)

\* Values randomUUID() can return.
Ids == 1..MaxCalls

\* An id create never hands out ('00000000-0000-0000-0000-000000000000' in the tests).
NonExistentId == 0

AllIds == Ids \cup {NonExistentId}

\* Ids a caller passes: those create handed out, and the one it never hands out.
KnownIds(handedOut) == handedOut \cup {NonExistentId}

\* Valid CreateProductDto objects: with and without description.
CreateDtos ==
    { [name |-> "Laptop", description |-> "Professional", price |-> 2, stock |-> 1],
      [name |-> "Mouse", price |-> 1, stock |-> 0] }

\* UpdateProductDto objects: every field is independently present or absent.
UpdateDtos ==
    { [k \in {} |-> 0],
      [price |-> 3],
      [name |-> "Renamed", description |-> "Updated", stock |-> 2] }

\* PaginationQueryDto objects a caller passes to findAll.
Queries ==
    { [page |-> 1, limit |-> 2],
      [page |-> 2, limit |-> 2],
      [page |-> 3, limit |-> 1],
      [page |-> 1, limit |-> DefaultLimit],
      [k \in {} |-> 0] }

\* Clients that can each have one request in flight.
Clients == {"c1", "c2"}

\* Pages and limits the listing properties range over.
Pages == 1..(MaxCalls + 2)

Limits == (1..(MaxCalls + 1)) \cup {DefaultLimit, MaxLimit}

(* ------------------------- JavaScript helpers -------------------------- *)

\* { ...a, ...b }: the keys of both, b's value where both have the key.
Spread(a, b) ==
    [k \in (DOMAIN a) \cup (DOMAIN b) |-> IF k \in DOMAIN b THEN b[k] ELSE a[k]]

\* filter that keeps every record, active or not.
FilterActive_KeepAll(ps) == ps

\* Array.prototype.filter(p => p.isActive === true)
RECURSIVE FilterActive(_)
FilterActive(ps) ==
    IF ps = <<>> THEN <<>>
    ELSE IF Head(ps).isActive = TRUE
         THEN <<Head(ps)>> \o FilterActive(Tail(ps))
         ELSE FilterActive(Tail(ps))

\* A relative index of Array.prototype.slice clamped into 0..len.
SliceIndex(i, len) ==
    IF i < 0 THEN (IF len + i < 0 THEN 0 ELSE len + i)
    ELSE IF i > len THEN len ELSE i

\* slice that also takes the element at end.
Slice_EndInclusive(arr, start, end) ==
    LET from == IF start > Len(arr) THEN Len(arr) ELSE start
        to   == IF end + 1 > Len(arr) THEN Len(arr) ELSE end + 1
    IN  IF from >= to THEN <<>> ELSE SubSeq(arr, from + 1, to)

\* Array.prototype.slice(start, end) with 0-based start (inclusive), end (exclusive).
Slice(arr, start, end) ==
    LET from == SliceIndex(start, Len(arr))
        to   == SliceIndex(end, Len(arr))
    IN  IF from >= to THEN <<>> ELSE SubSeq(arr, from + 1, to)

\* Math.floor in place of Math.ceil.
Ceil_Floor(n, d) == n \div d

\* Math.ceil(n / d) for n >= 0 and d > 0.
Ceil(n, d) == (n + d - 1) \div d

\* A look-up by id alone.
Matches_IdOnly(p, id) == p.id = id

\* Does record p match the look-up (p.id === id && p.isActive === true)?
Matches(p, id) == p.id = id /\ p.isActive = TRUE

\* Array.prototype.findIndex with that predicate: the first match, 0 for none.
FindIndex(ps, id) ==
    IF \E i \in 1..Len(ps) : Matches(ps[i], id)
    THEN CHOOSE i \in 1..Len(ps) :
             /\ Matches(ps[i], id)
             /\ \A j \in 1..(i - 1) : ~Matches(ps[j], id)
    ELSE 0

\* new NotFoundException(`Product with ID "${id}" not found`)
NotFoundException(id) ==
    [status |-> "NotFound", message |-> <<"Product with ID \"", id, "\" not found">>]

(* --------------------------- the five methods -------------------------- *)

\* create that puts the new product first (unshift in place of push).
create_Unshift(ps, createProductDto, uuid, now) ==
    LET product == Spread(Spread([id |-> uuid], createProductDto),
                          [isActive |-> TRUE, createdAt |-> now, updatedAt |-> now])
    IN  [status |-> "ok", products |-> <<product>> \o ps, value |-> product]

\* create(createProductDto): the new collection and the returned product.
create(ps, createProductDto, uuid, now) ==
    LET product == Spread(Spread([id |-> uuid], createProductDto),
                          [isActive |-> TRUE, createdAt |-> now, updatedAt |-> now])
    IN  [status |-> "ok", products |-> Append(ps, product), value |-> product]

\* const { page = 1, limit = 10 } = paginationQuery
PageOf(paginationQuery) ==
    IF "page" \in DOMAIN paginationQuery THEN paginationQuery.page ELSE DefaultPage

\* A limit that defaults to 1.
LimitOf_DefaultsToOne(paginationQuery) ==
    IF "limit" \in DOMAIN paginationQuery THEN paginationQuery.limit ELSE 1

LimitOf(paginationQuery) ==
    IF "limit" \in DOMAIN paginationQuery THEN paginationQuery.limit ELSE DefaultLimit

\* findAll with offset = page * limit (pages counted from 0).
findAll_OffsetFromZero(ps, paginationQuery) ==
    LET page  == PageOf(paginationQuery)
        limit == LimitOf(paginationQuery)
        activeProducts == FilterActive(ps)
        offset == page * limit
    IN  [data |-> Slice(activeProducts, offset, offset + limit),
         meta |-> [total |-> Len(activeProducts), page |-> page,
                   limit |-> limit,
                   totalPages |-> Ceil(Len(activeProducts), limit)]]

\* findAll with slice(offset, limit) in place of slice(offset, offset + limit).
findAll_SliceToLimit(ps, paginationQuery) ==
    LET page  == PageOf(paginationQuery)
        limit == LimitOf(paginationQuery)
        activeProducts == FilterActive(ps)
        offset == (page - 1) * limit
    IN  [data |-> Slice(activeProducts, offset, limit),
         meta |-> [total |-> Len(activeProducts), page |-> page,
                   limit |-> limit,
                   totalPages |-> Ceil(Len(activeProducts), limit)]]

\* findAll(paginationQuery): query is an object with optional page and limit.
findAll(ps, paginationQuery) ==
    LET page  == PageOf(paginationQuery)
        limit == LimitOf(paginationQuery)
        activeProducts == FilterActive(ps)
        offset == (page - 1) * limit
        paginatedProducts == Slice(activeProducts, offset, offset + limit)
        totalPages == Ceil(Len(activeProducts), limit)
    IN  [data |-> paginatedProducts,
         meta |-> [total |-> Len(activeProducts), page |-> page,
                   limit |-> limit, totalPages |-> totalPages]]

\* findOne whose look-up ignores isActive.
findOne_AnyRecord(ps, id) ==
    IF \E i \in 1..Len(ps) : ps[i].id = id
    THEN [status |-> "ok", value |-> ps[CHOOSE i \in 1..Len(ps) : ps[i].id = id]]
    ELSE [status |-> "NotFound", message |-> <<"Product with ID \"", id, "\" not found">>]

\* findOne(id)
findOne(ps, id) ==
    LET index == FindIndex(ps, id)
    IN  IF index = 0 THEN NotFoundException(id)
        ELSE [status |-> "ok", value |-> ps[index]]

\* update that replaces the record by the patch instead of merging into it.
update_Replace(ps, id, updateProductDto, now) ==
    IF \E i \in 1..Len(ps) : ps[i].id = id /\ ps[i].isActive = TRUE
    THEN LET index == CHOOSE i \in 1..Len(ps) : ps[i].id = id /\ ps[i].isActive = TRUE
             merged == Spread(Spread([id |-> id, isActive |-> TRUE,
                                      createdAt |-> ps[index].createdAt],
                                     updateProductDto),
                              [updatedAt |-> now])
         IN  [status |-> "ok",
              products |-> [ps EXCEPT ![index] = merged],
              value |-> merged]
    ELSE [status |-> "NotFound", products |-> ps,
          message |-> <<"Product with ID \"", id, "\" not found">>]

\* update whose look-up ignores isActive.
update_AnyRecord(ps, id, updateProductDto, now) ==
    IF \E i \in 1..Len(ps) : ps[i].id = id
    THEN LET index == CHOOSE i \in 1..Len(ps) : ps[i].id = id
             merged == Spread(Spread(ps[index], updateProductDto),
                              [updatedAt |-> now])
         IN  [status |-> "ok",
              products |-> [ps EXCEPT ![index] = merged],
              value |-> merged]
    ELSE [status |-> "NotFound", products |-> ps,
          message |-> <<"Product with ID \"", id, "\" not found">>]

\* update that stamps createdAt in place of updatedAt.
update_StampsCreatedAt(ps, id, updateProductDto, now) ==
    IF \E i \in 1..Len(ps) : ps[i].id = id /\ ps[i].isActive = TRUE
    THEN LET index == CHOOSE i \in 1..Len(ps) : ps[i].id = id /\ ps[i].isActive = TRUE
             merged == Spread(Spread(ps[index], updateProductDto),
                              [createdAt |-> now])
         IN  [status |-> "ok",
              products |-> [ps EXCEPT ![index] = merged],
              value |-> merged]
    ELSE [status |-> "NotFound", products |-> ps,
          message |-> <<"Product with ID \"", id, "\" not found">>]

\* update that refreshes updatedAt of every record.
update_StampsAll(ps, id, updateProductDto, now) ==
    IF \E i \in 1..Len(ps) : ps[i].id = id /\ ps[i].isActive = TRUE
    THEN LET index == CHOOSE i \in 1..Len(ps) : ps[i].id = id /\ ps[i].isActive = TRUE
             merged == Spread(Spread(ps[index], updateProductDto),
                              [updatedAt |-> now])
         IN  [status |-> "ok",
              products |-> [j \in 1..Len(ps) |->
                               IF j = index THEN merged
                               ELSE Spread(ps[j], [updatedAt |-> now])],
              value |-> merged]
    ELSE [status |-> "NotFound", products |-> ps,
          message |-> <<"Product with ID \"", id, "\" not found">>]

\* update that takes the record out and pushes the merged one at the end.
update_MoveToEnd(ps, id, updateProductDto, now) ==
    IF \E i \in 1..Len(ps) : ps[i].id = id /\ ps[i].isActive = TRUE
    THEN LET index == CHOOSE i \in 1..Len(ps) : ps[i].id = id /\ ps[i].isActive = TRUE
             merged == Spread(Spread(ps[index], updateProductDto),
                              [updatedAt |-> now])
         IN  [status |-> "ok",
              products |-> SubSeq(ps, 1, index - 1) \o SubSeq(ps, index + 1, Len(ps))
                               \o <<merged>>,
              value |-> merged]
    ELSE [status |-> "NotFound", products |-> ps,
          message |-> <<"Product with ID \"", id, "\" not found">>]

\* update(id, updateProductDto)
update(ps, id, updateProductDto, now) ==
    LET index == FindIndex(ps, id)
    IN  IF index = 0 THEN Spread(NotFoundException(id), [products |-> ps])
        ELSE LET merged == Spread(Spread(ps[index], updateProductDto),
                                  [updatedAt |-> now])
             IN  [status |-> "ok",
                  products |-> [ps EXCEPT ![index] = merged],
                  value |-> merged]

\* remove whose look-up ignores isActive (an idempotent delete).
remove_Idempotent(ps, id, now) ==
    IF \E i \in 1..Len(ps) : ps[i].id = id
    THEN LET index == CHOOSE i \in 1..Len(ps) : ps[i].id = id
             flipped == Spread(ps[index],
                               [isActive |-> FALSE, updatedAt |-> now])
         IN  [status |-> "ok",
              products |-> [ps EXCEPT ![index] = flipped],
              value |-> flipped]
    ELSE [status |-> "NotFound", products |-> ps,
          message |-> <<"Product with ID \"", id, "\" not found">>]

\* remove that returns the record as it was before the change.
remove_ReturnsOld(ps, id, now) ==
    IF \E i \in 1..Len(ps) : ps[i].id = id /\ ps[i].isActive = TRUE
    THEN LET index == CHOOSE i \in 1..Len(ps) : ps[i].id = id /\ ps[i].isActive = TRUE
             flipped == Spread(ps[index],
                               [isActive |-> FALSE, updatedAt |-> now])
         IN  [status |-> "ok",
              products |-> [ps EXCEPT ![index] = flipped],
              value |-> ps[index]]
    ELSE [status |-> "NotFound", products |-> ps,
          message |-> <<"Product with ID \"", id, "\" not found">>]

\* remove that refreshes updatedAt of an inactive record before it throws.
remove_TouchThenThrow(ps, id, now) ==
    IF \E i \in 1..Len(ps) : ps[i].id = id /\ ps[i].isActive = TRUE
    THEN LET index == CHOOSE i \in 1..Len(ps) : ps[i].id = id /\ ps[i].isActive = TRUE
             flipped == Spread(ps[index],
                               [isActive |-> FALSE, updatedAt |-> now])
         IN  [status |-> "ok",
              products |-> [ps EXCEPT ![index] = flipped],
              value |-> flipped]
    ELSE [status |-> "NotFound",
          products |-> [i \in 1..Len(ps) |->
                           IF ps[i].id = id THEN Spread(ps[i], [updatedAt |-> now])
                           ELSE ps[i]],
          message |-> <<"Product with ID \"", id, "\" not found">>]

\* remove that takes the record out of the array (splice).
remove_Splice(ps, id, now) ==
    IF \E i \in 1..Len(ps) : ps[i].id = id /\ ps[i].isActive = TRUE
    THEN LET index == CHOOSE i \in 1..Len(ps) : ps[i].id = id /\ ps[i].isActive = TRUE
             flipped == Spread(ps[index],
                               [isActive |-> FALSE, updatedAt |-> now])
         IN  [status |-> "ok",
              products |-> SubSeq(ps, 1, index - 1) \o SubSeq(ps, index + 1, Len(ps)),
              value |-> flipped]
    ELSE [status |-> "NotFound", products |-> ps,
          message |-> <<"Product with ID \"", id, "\" not found">>]

\* remove that leaves updatedAt as it was.
remove_KeepsTimestamp(ps, id, now) ==
    IF \E i \in 1..Len(ps) : ps[i].id = id /\ ps[i].isActive = TRUE
    THEN LET index == CHOOSE i \in 1..Len(ps) : ps[i].id = id /\ ps[i].isActive = TRUE
             flipped == Spread(ps[index], [isActive |-> FALSE])
         IN  [status |-> "ok",
              products |-> [ps EXCEPT ![index] = flipped],
              value |-> flipped]
    ELSE [status |-> "NotFound", products |-> ps,
          message |-> <<"Product with ID \"", id, "\" not found">>]

\* remove(id)
remove(ps, id, now) ==
    LET index == FindIndex(ps, id)
    IN  IF index = 0 THEN Spread(NotFoundException(id), [products |-> ps])
        ELSE LET flipped == Spread(ps[index],
                                   [isActive |-> FALSE, updatedAt |-> now])
             IN  [status |-> "ok",
                  products |-> [ps EXCEPT ![index] = flipped],
                  value |-> flipped]

(* ------------------------------ the calls ------------------------------ *)

\* What the last call was and what it gave back, without the collection.
Outcome(op, args, r) ==
    Spread([op |-> op, args |-> args],
           [k \in (DOMAIN r) \ {"products"} |-> r[k]])

\* randomUUID that can return a value again.
randomUUID_Repeat(used) == CHOOSE u \in Ids : \A v \in Ids : u <= v

\* randomUUID(): a value it never returned before. The code only compares
\* ids with ===, so the model takes the least unused one.
randomUUID(used) == CHOOSE u \in Ids \ used : \A v \in Ids \ used : u <= v

Init ==
    /\ products = <<>>
    /\ clock = 0
    /\ issued = {}
    /\ removed = {}
    /\ calls = 0
    /\ ret = [op |-> "none"]
    /\ inflight = [c \in Clients |-> [pc |-> "idle"]]

\* The system clock advances between calls.
Tick ==
    /\ clock < MaxClock
    /\ clock' = clock + 1
    /\ UNCHANGED <<products, issued, removed, calls, ret, inflight>>

CreateCall ==
    \E dto \in CreateDtos :
        LET uuid == randomUUID(issued)
            r == create(products, dto, uuid, clock)
        IN  /\ calls < MaxCalls
            /\ products' = r.products
            /\ issued' = issued \cup {uuid}
            /\ calls' = calls + 1
            /\ ret' = Outcome("create", [dto |-> dto], r)
            /\ UNCHANGED <<clock, removed, inflight>>

\* findAll that reverses the array in place before it answers.
FindAllCall_ReversesStore ==
    \E query \in Queries :
        /\ products' = [i \in 1..Len(products) |-> products[Len(products) + 1 - i]]
        /\ ret' = Outcome("findAll", query, findAll(products', query))
        /\ UNCHANGED <<clock, issued, removed, calls, inflight>>

FindAllCall ==
    \E query \in Queries :
        /\ ret' = Outcome("findAll", query, findAll(products, query))
        /\ UNCHANGED <<products, clock, issued, removed, calls, inflight>>

FindOneCall ==
    \E id \in KnownIds(issued) :
        /\ ret' = Outcome("findOne", [id |-> id], findOne(products, id))
        /\ UNCHANGED <<products, clock, issued, removed, calls, inflight>>

UpdateCall ==
    \E id \in KnownIds(issued), dto \in UpdateDtos :
        LET r == update(products, id, dto, clock)
        IN  /\ r.status = "ok" => calls < MaxCalls
            /\ products' = r.products
            /\ calls' = IF r.status = "ok" THEN calls + 1 ELSE calls
            /\ ret' = Outcome("update", [id |-> id, dto |-> dto], r)
            /\ UNCHANGED <<clock, issued, removed, inflight>>

RemoveCall ==
    \E id \in KnownIds(issued) :
        LET r == remove(products, id, clock)
        IN  /\ r.status = "ok" => calls < MaxCalls
            /\ products' = r.products
            /\ removed' = IF r.status = "ok" THEN removed \cup {id} ELSE removed
            /\ calls' = IF r.status = "ok" THEN calls + 1 ELSE calls
            /\ ret' = Outcome("remove", [id |-> id], r)
            /\ UNCHANGED <<clock, issued, inflight>>

Next ==
    \/ Tick
    \/ CreateCall
    \/ FindAllCall
    \/ FindOneCall
    \/ UpdateCall
    \/ RemoveCall

Spec == Init /\ [][Next]_vars

(* ------------------- callers that keep what they got ------------------ *)

\* Assignments a caller makes to a Product object it was handed.
CallerWrites == { [isActive |-> TRUE], [price |-> 0] }

\* create returns the object it pushed, update and remove return
\* this.products[index] right after storing it, findOne returns the array
\* element and findAll's data holds the array elements: the object in every
\* position of the array is one a caller was handed, and an assignment to
\* it is an assignment to the stored record.
CallerWrite ==
    \E i \in 1..Len(products), write \in CallerWrites :
        /\ calls < MaxCalls
        /\ products' = [products EXCEPT ![i] = Spread(products[i], write)]
        /\ calls' = calls + 1
        /\ ret' = [op |-> "callerWrite", args |-> [id |-> products[i].id, write |-> write]]
        /\ UNCHANGED <<clock, issued, removed, inflight>>

NextAlias ==
    \/ Next
    \/ CallerWrite

SpecAlias == Init /\ [][NextAlias]_vars

(* ---------------------------- the HTTP layer --------------------------- *)

\* A JSON value of a request body: its type and a number n that is the
\* length of a string, twice the value of a number (n odd: a fraction)
\* and 0 for null.
Str(len)   == [t |-> "string", n |-> len]

Num(twice) == [t |-> "number", n |-> twice]

Null       == [t |-> "null", n |-> 0]

\* Properties CreateProductDto declares (the whitelist of the pipe).
DtoKeys == {"name", "description", "price", "stock"}

\* class-validator decorators, as predicates on a present value.
IsString(v) == v.t = "string"

IsNotEmpty(v) == v.t # "null" /\ ~(v.t = "string" /\ v.n = 0)

IsNumber(v) == v.t = "number"

\* @IsPositive() that lets 0 through.
IsPositive_AllowsZero(v) == v.t = "number" /\ v.n >= 0

IsPositive(v) == v.t = "number" /\ v.n > 0

IsInt(v) == v.t = "number" /\ v.n % 2 = 0

Min(v, min) == v.t = "number" /\ v.n >= 2 * min

\* @Max() that lets every number through.
Max_Ignored(v, max) == v.t = "number"

Max(v, max) == v.t = "number" /\ v.n <= 2 * max

\* The decorators CreateProductDto puts on each property.
Constraint(k, v) ==
    CASE k = "name"        -> IsString(v) /\ IsNotEmpty(v)
      [] k = "description" -> IsString(v)
      [] k = "price"       -> IsNumber(v) /\ IsPositive(v)
      [] k = "stock"       -> IsInt(v) /\ Min(v, 0)

\* @IsOptional(): the property's validators are skipped when the value is
\* undefined (the key is absent) or null.
IsOptional(body, k) == k \notin DOMAIN body \/ body[k].t = "null"

\* Validation of one property: a property without @IsOptional() must be
\* present and pass its decorators.
PropertyValid(body, k, optional) ==
    IF optional /\ IsOptional(body, k) THEN TRUE
    ELSE k \in DOMAIN body /\ Constraint(k, body[k])

\* The pipe without forbidNonWhitelisted and whitelist: unknown keys pass.
ValidCreateBody_NoWhitelist(body) ==
    \A k \in DtoKeys : PropertyValid(body, k, k = "description")

\* ValidationPipe({ whitelist, forbidNonWhitelisted }) on a CreateProductDto.
ValidCreateBody(body) ==
    /\ DOMAIN body \subseteq DtoKeys
    /\ \A k \in DtoKeys : PropertyValid(body, k, k = "description")

\* The same on an UpdateProductDto: PartialType(CreateProductDto) keeps the
\* decorators and adds @IsOptional() to every property.
ValidUpdateBody(body) ==
    /\ DOMAIN body \subseteq DtoKeys
    /\ \A k \in DtoKeys : PropertyValid(body, k, TRUE)

\* Bodies of POST /products. The value of a key outside DtoKeys is never
\* looked at by the pipe and is written as the model writes that field of a
\* record (an id, a boolean, a time).
PostBodies ==
    { [name |-> Str(6), description |-> Str(12), price |-> Num(9), stock |-> Num(2)],
      [name |-> Str(5), price |-> Num(2), stock |-> Num(0)],
      [name |-> Str(5), price |-> Num(-2), stock |-> Num(20)],
      [price |-> Num(2), stock |-> Num(0)],
      [name |-> Str(0), price |-> Num(2), stock |-> Num(0)],
      [name |-> Num(2), price |-> Num(2), stock |-> Num(0)],
      [name |-> Str(5), stock |-> Num(0)],
      [name |-> Str(5), price |-> Str(1), stock |-> Num(0)],
      [name |-> Str(5), price |-> Num(0), stock |-> Num(0)],
      [name |-> Str(5), price |-> Num(2)],
      [name |-> Str(5), price |-> Num(2), stock |-> Num(3)],
      [name |-> Str(5), price |-> Num(2), stock |-> Num(-2)],
      [name |-> Str(5), price |-> Num(2), stock |-> Num(0), id |-> NonExistentId] }

\* Bodies of PATCH /products/:id.
PatchBodies ==
    { [price |-> Num(6)],
      [price |-> Num(-100)],
      [price |-> Null],
      [stock |-> Num(3)],
      [name |-> Str(0)],
      [name |-> Null],
      [price |-> Num(6), isActive |-> FALSE] }

\* A NotFoundException that no filter maps: it ends as a 500.
Response_NotFoundAsFault(op, args, okCode, r) ==
    IF r.status = "ok"
    THEN [op |-> op, args |-> args, code |-> okCode, body |-> r.value]
    ELSE [op |-> op, args |-> args, code |-> 500, body |-> r.message]

\* The response: 201 or 200 with the store's result, 404 for NotFound.
Response(op, args, okCode, r) ==
    IF r.status = "ok"
    THEN [op |-> op, args |-> args, code |-> okCode, body |-> r.value]
    ELSE [op |-> op, args |-> args, code |-> 404, body |-> r.message]

\* The pipe's BadRequestException.
BadRequest(op, args) == [op |-> op, args |-> args, code |-> 400]

\* POST /products
HttpPost ==
    \E body \in PostBodies :
        IF ValidCreateBody(body)
        THEN LET uuid == randomUUID(issued)
                 r == create(products, body, uuid, clock)
             IN  /\ calls < MaxCalls
                 /\ products' = r.products
                 /\ issued' = issued \cup {uuid}
                 /\ calls' = calls + 1
                 /\ ret' = Response("POST", [body |-> body], 201, r)
                 /\ UNCHANGED <<clock, removed, inflight>>
        ELSE /\ ret' = BadRequest("POST", [body |-> body])
             /\ UNCHANGED <<products, clock, issued, removed, calls, inflight>>

\* PATCH /products/:id
HttpPatch ==
    \E id \in KnownIds(issued), body \in PatchBodies :
        IF ValidUpdateBody(body)
        THEN LET r == update(products, id, body, clock)
             IN  /\ r.status = "ok" => calls < MaxCalls
                 /\ products' = r.products
                 /\ calls' = IF r.status = "ok" THEN calls + 1 ELSE calls
                 /\ ret' = Response("PATCH", [id |-> id, body |-> body], 200, r)
                 /\ UNCHANGED <<clock, issued, removed, inflight>>
        ELSE /\ ret' = BadRequest("PATCH", [id |-> id, body |-> body])
             /\ UNCHANGED <<products, clock, issued, removed, calls, inflight>>

\* DELETE /products/:id
HttpDelete ==
    \E id \in KnownIds(issued) :
        LET r == remove(products, id, clock)
        IN  /\ r.status = "ok" => calls < MaxCalls
            /\ products' = r.products
            /\ removed' = IF r.status = "ok" THEN removed \cup {id} ELSE removed
            /\ calls' = IF r.status = "ok" THEN calls + 1 ELSE calls
            /\ ret' = Response("DELETE", [id |-> id], 200, r)
            /\ UNCHANGED <<clock, issued, inflight>>

\* The value of a query-string parameter is its text, here the tuple of its
\* characters: an optional "-", decimal digits and an optional "." with
\* more digits, or anything else.
Digits == <<"0", "1", "2", "3", "4", "5", "6", "7", "8", "9">>

IsDigit(c) == \E d \in 1..10 : Digits[d] = c

DigitValue(c) == (CHOOSE d \in 1..10 : Digits[d] = c) - 1

AllDigits(s) == \A i \in 1..Len(s) : IsDigit(s[i])

\* The value of a string of decimal digits (0 for the empty one).
RECURSIVE Decimal(_)
Decimal(s) ==
    IF s = <<>> THEN 0
    ELSE 10 * Decimal(SubSeq(s, 1, Len(s) - 1)) + DigitValue(s[Len(s)])

NaN == [t |-> "NaN", n |-> 0]

\* @Type(() => Number): Number(text). The empty text is 0, a decimal
\* literal is its value (a fraction other than .0 gives an odd n), any
\* other text is NaN.
Number(s) ==
    LET neg   == s # <<>> /\ s[1] = "-"
        abs   == IF neg THEN Tail(s) ELSE s
        dots  == { i \in 1..Len(abs) : abs[i] = "." }
        dot   == IF dots = {} THEN Len(abs) + 1 ELSE CHOOSE i \in dots : TRUE
        whole == SubSeq(abs, 1, dot - 1)
        frac  == SubSeq(abs, dot + 1, Len(abs))
        twice == IF Decimal(frac) = 0 THEN 2 * Decimal(whole)
                 ELSE 2 * Decimal(whole) + 1
    IN  IF s = <<>> THEN Num(0)
        ELSE IF \/ Cardinality(dots) > 1
                \/ ~AllDigits(whole)
                \/ ~AllDigits(frac)
                \/ (whole = <<>> /\ frac = <<>>)
             THEN NaN
             ELSE Num(IF neg THEN 0 - twice ELSE twice)

\* Properties PaginationQueryDto declares.
QueryKeys == {"page", "limit"}

\* plainToInstance(PaginationQueryDto, query): every given parameter converted.
Transform(query) == [k \in DOMAIN query |-> Number(query[k])]

\* The decorators PaginationQueryDto puts on each property.
QueryConstraint(k, v) ==
    CASE k = "page"  -> IsInt(v) /\ Min(v, 1)
      [] k = "limit" -> IsInt(v) /\ Min(v, 1) /\ Max(v, MaxLimit)

\* The pipe on a PaginationQueryDto: both properties carry @IsOptional().
ValidQuery(dto) ==
    /\ DOMAIN dto \subseteq QueryKeys
    /\ \A k \in QueryKeys : IsOptional(dto, k) \/ QueryConstraint(k, dto[k])

\* The instance handed to the controller: the class's initialisers
\* (page = 1, limit = 10) under the given parameters.
PaginationQueryDto(dto) ==
    Spread([page |-> 1, limit |-> 10], [k \in DOMAIN dto |-> dto[k].n \div 2])

\* Query strings of GET /products.
GetQueries ==
    { [k \in {} |-> <<>>],
      [page |-> <<"2">>, limit |-> <<"1">>],
      [limit |-> <<"1", "0", "0">>],
      [limit |-> <<"2", ".", "0">>],
      [page |-> <<"0">>],
      [page |-> <<"1", ".", "5">>],
      [page |-> <<"a">>],
      [limit |-> <<"0">>],
      [limit |-> <<"1", "0", "1">>] }

\* GET /products
HttpGetAll ==
    \E query \in GetQueries :
        LET dto == Transform(query)
        IN  /\ ret' = IF ValidQuery(dto)
                      THEN Response("GET", [query |-> query], 200,
                                    [status |-> "ok",
                                     value |-> findAll(products, PaginationQueryDto(dto))])
                      ELSE BadRequest("GET", [query |-> query])
            /\ UNCHANGED <<products, clock, issued, removed, calls, inflight>>

\* GET /products/:id
HttpGetOne ==
    \E id \in KnownIds(issued) :
        /\ ret' = Response("GET:id", [id |-> id], 200, findOne(products, id))
        /\ UNCHANGED <<products, clock, issued, removed, calls, inflight>>

NextHttp ==
    \/ Tick
    \/ HttpPost
    \/ HttpGetAll
    \/ HttpGetOne
    \/ HttpPatch
    \/ HttpDelete

SpecHttp == Init /\ [][NextHttp]_vars

(* ------------------------- requests in flight -------------------------- *)

\* Requests a client can send: the five store calls, on ids it knows.
Requests(handedOut) ==
    { [op |-> "create", dto |-> dto] : dto \in CreateDtos }
    \cup { [op |-> "findAll", query |-> [page |-> 1, limit |-> 2]] }
    \cup { [op |-> op, id |-> id] : op \in {"findOne", "remove"}, id \in KnownIds(handedOut) }
    \cup { [op |-> "update", id |-> id, dto |-> [price |-> 3]] : id \in KnownIds(handedOut) }

\* A request arrives and waits for its turn on the event loop. sawActive
\* notes whether its id was that of an active record on arrival.
Receive ==
    \E c \in Clients, req \in Requests(issued) :
        /\ inflight[c].pc = "idle"
        /\ inflight' = [inflight EXCEPT ![c] =
                [pc |-> "pending", req |-> req,
                 sawActive |-> "id" \in DOMAIN req /\ FindIndex(products, req.id) # 0]]
        /\ UNCHANGED <<products, clock, issued, removed, calls, ret>>

\* The slot of a request whose handler has returned or thrown.
Done(slot, status) == [pc |-> "done", req |-> slot.req,
                       sawActive |-> slot.sawActive, status |-> status]

\* The handlers and the service methods are synchronous (no await, no
\* callback): once a handler starts, the whole store call runs before any
\* other request's code does.
RunCreate ==
    \E c \in Clients :
        LET uuid == randomUUID(issued)
            r == create(products, inflight[c].req.dto, uuid, clock)
        IN  /\ inflight[c].pc = "pending"
            /\ inflight[c].req.op = "create"
            /\ calls < MaxCalls
            /\ products' = r.products
            /\ issued' = issued \cup {uuid}
            /\ calls' = calls + 1
            /\ inflight' = [inflight EXCEPT ![c] = Done(inflight[c], r.status)]
            /\ UNCHANGED <<clock, removed, ret>>

RunFindAll ==
    \E c \in Clients :
        /\ inflight[c].pc = "pending"
        /\ inflight[c].req.op = "findAll"
        /\ inflight' = [inflight EXCEPT ![c] = Done(inflight[c], "ok")]
        /\ UNCHANGED <<products, clock, issued, removed, calls, ret>>

RunFindOne ==
    \E c \in Clients :
        /\ inflight[c].pc = "pending"
        /\ inflight[c].req.op = "findOne"
        /\ inflight' = [inflight EXCEPT ![c] =
                Done(inflight[c], findOne(products, inflight[c].req.id).status)]
        /\ UNCHANGED <<products, clock, issued, removed, calls, ret>>

RunUpdate ==
    \E c \in Clients :
        LET r == update(products, inflight[c].req.id, inflight[c].req.dto, clock)
        IN  /\ inflight[c].pc = "pending"
            /\ inflight[c].req.op = "update"
            /\ r.status = "ok" => calls < MaxCalls
            /\ products' = r.products
            /\ calls' = IF r.status = "ok" THEN calls + 1 ELSE calls
            /\ inflight' = [inflight EXCEPT ![c] = Done(inflight[c], r.status)]
            /\ UNCHANGED <<clock, issued, removed, ret>>

RunRemove ==
    \E c \in Clients :
        LET id == inflight[c].req.id
            r  == remove(products, id, clock)
        IN  /\ inflight[c].pc = "pending"
            /\ inflight[c].req.op = "remove"
            /\ r.status = "ok" => calls < MaxCalls
            /\ products' = r.products
            /\ removed' = IF r.status = "ok" THEN removed \cup {id} ELSE removed
            /\ calls' = IF r.status = "ok" THEN calls + 1 ELSE calls
            /\ inflight' = [inflight EXCEPT ![c] = Done(inflight[c], r.status)]
            /\ UNCHANGED <<clock, issued, ret>>

\* The response is written and the client can send its next request.
Respond ==
    \E c \in Clients :
        /\ inflight[c].pc = "done"
        /\ inflight' = [inflight EXCEPT ![c] = [pc |-> "idle"]]
        /\ UNCHANGED <<products, clock, issued, removed, calls, ret>>

NextConc ==
    \/ Receive
    \/ RunCreate
    \/ RunFindAll
    \/ RunFindOne
    \/ RunUpdate
    \/ RunRemove
    \/ Respond

SpecConc == Init /\ [][NextConc]_vars

(* ------------------------ vocabulary of the claims --------------------- *)

\* The collection holds an active record with this id.
HasActive(ps, id) == \E i \in 1..Len(ps) : ps[i].id = id /\ ps[i].isActive = TRUE

\* The collection holds an inactive record with this id.
HasInactive(ps, id) == \E i \in 1..Len(ps) : ps[i].id = id /\ ps[i].isActive = FALSE

\* The ids of the records in a list.
IdsIn(list) == { list[k].id : k \in 1..Len(list) }

\* The page of findAll for a page number and a limit.
Page(ps, page, limit) == findAll(ps, [page |-> page, limit |-> limit])

\* The pages (for one limit) whose data holds a record with this id.
PagesWith(ps, id, limit) == { page \in Pages : id \in IdsIn(Page(ps, page, limit).data) }

EmptyDto == [k \in {} |-> 0]

\* The active records in insertion order.
ActiveInOrder(ps) == SelectSeq(ps, LAMBDA p : p.isActive)

\* The position of the record with this id (ids are looked up among all records).
IndexOfId(ps, id) == CHOOSE i \in 1..Len(ps) : ps[i].id = id

\* data of pages 1..n for one limit, one after the other.
RECURSIVE ConcatPages(_, _, _)
ConcatPages(ps, n, limit) ==
    IF n = 0 THEN <<>>
    ELSE ConcatPages(ps, n - 1, limit) \o Page(ps, n, limit).data

Smaller(a, b) == IF a < b THEN a ELSE b

\* Keys create and update set themselves.
GeneratedKeys == {"id", "isActive", "createdAt", "updatedAt"}

(* -------------------------------- claims ------------------------------- *)

\* C1: once remove(id) has succeeded, in every later state findOne(id) fails
\* with NotFound and no page of findAll, for any page and limit, holds a
\* record with that id.
C1_RemovedStaysInvisible ==
    \A id \in removed :
        /\ findOne(products, id).status = "NotFound"
        /\ \A page \in Pages, limit \in Limits :
               id \notin IdsIn(Page(products, page, limit).data)

\* A findOne on a removed id was answered while other records are listed.
C1_Witness ==
    /\ ret.op = "findOne"
    /\ ret.args.id \in removed
    /\ ret.status = "NotFound"
    /\ \E id \in Ids : HasActive(products, id)

C3_UpdateInactiveFails ==
    \A id \in AllIds, dto \in UpdateDtos :
        LET r == update(products, id, dto, clock)
        IN  /\ HasInactive(products, id) =>
                   r.status = "NotFound" /\ r.products = products
            /\ \A i \in 1..Len(products) :
                   products[i].isActive = FALSE => r.products[i] = products[i]

\* An update with a non-empty patch on a removed id was answered NotFound.
C3_Witness ==
    /\ ret.op = "update"
    /\ ret.args.id \in removed
    /\ ret.args.dto # EmptyDto
    /\ ret.status = "NotFound"

C5_UpdateChangesOnlyPatch ==
    [][ (ret'.op = "update" /\ ret'.status = "ok" /\ <<products, ret>>' # <<products, ret>>) =>
           LET id  == ret'.args.id
               dto == ret'.args.dto
               i   == IndexOfId(products, id)
               old == products[i]
               new == products'[i]
           IN  /\ HasActive(products, id)
               /\ ret'.value = new
               /\ \A k \in (DOMAIN old) \cup (DOMAIN new) :
                      k \notin (DOMAIN dto) \cup {"updatedAt"} =>
                          k \in DOMAIN old /\ k \in DOMAIN new /\ new[k] = old[k]
               /\ \A k \in DOMAIN dto : new[k] = dto[k]
               /\ new.id = old.id
               /\ new.isActive = old.isActive
               /\ new.createdAt = old.createdAt ]_vars

\* A price-only update succeeded on a record that has a description.
C5_Witness ==
    /\ ret.op = "update"
    /\ ret.status = "ok"
    /\ DOMAIN ret.args.dto = {"price"}
    /\ ret.value.price = ret.args.dto.price
    /\ "description" \in DOMAIN ret.value

\* C6: findOne(id) returns the stored record with that id, as it is now,
\* exactly when such a record exists and is active; otherwise it fails with
\* NotFound and the message 'Product with ID "<id>" not found'.
C6_FindOne ==
    /\ \A id \in AllIds :
          LET r == findOne(products, id)
          IN  IF \E i \in 1..Len(products) :
                     products[i].id = id /\ products[i].isActive = TRUE
              THEN /\ r.status = "ok"
                   /\ r.value.id = id
                   /\ r.value.isActive = TRUE
                   /\ \A i \in 1..Len(products) :
                          products[i].id = id => r.value = products[i]
              ELSE r = [status |-> "NotFound",
                        message |-> <<"Product with ID \"", id, "\" not found">>]
    /\ ret.op = "findOne" =>
          IF HasActive(products, ret.args.id)
          THEN ret.status = "ok" /\ ret.value = products[IndexOfId(products, ret.args.id)]
          ELSE ret.status = "NotFound"

\* findOne returned a record that an update had changed since its creation.
C6_Witness ==
    /\ ret.op = "findOne"
    /\ ret.status = "ok"
    /\ ret.value.name = "Renamed"
    /\ ret.value = products[IndexOfId(products, ret.args.id)]

\* C7: for every limit, the data of pages 1..totalPages one after the other
\* is the list of the active records in insertion order, each once.
C7_PagesConcatenate ==
    \A limit \in Limits :
        LET totalPages == Page(products, 1, limit).meta.totalPages
        IN  ConcatPages(products, totalPages, limit) = ActiveInOrder(products)

\* The second of two pages was returned.
C7_Witness ==
    /\ ret.op = "findAll"
    /\ ret.meta.page = 2
    /\ ret.meta.totalPages = 2
    /\ Len(ret.data) = 1
    /\ Len(ActiveInOrder(products)) = 3

\* C8: meta.total is the number of active records, meta.totalPages is
\* ceil(total / limit) (0 exactly when total is 0), and meta.page and
\* meta.limit are the requested values.
C8_Meta ==
    \A page \in Pages, limit \in Limits :
        LET meta == Page(products, page, limit).meta
        IN  /\ meta.total =
                   Cardinality({ i \in 1..Len(products) : products[i].isActive = TRUE })
            /\ meta.totalPages * limit >= meta.total
            /\ (meta.totalPages - 1) * limit < meta.total
            /\ (meta.totalPages = 0) <=> (meta.total = 0)
            /\ meta.page = page
            /\ meta.limit = limit

\* A list was returned whose total leaves out an inactive record and whose
\* last page is not full.
C8_Witness ==
    /\ ret.op = "findAll"
    /\ ret.meta.total >= 1
    /\ ret.meta.total < Len(products)
    /\ ret.meta.total < ret.meta.totalPages * ret.meta.limit

\* C9: data is the active records at positions (page-1)*limit + 1 ..
\* (page-1)*limit + limit of the active list, cut at its end: a page before
\* the last has limit elements, the last has 1..limit, a later one none.
C9_PageSlice ==
    \A page \in Pages, limit \in Limits :
        LET active == ActiveInOrder(products)
            first  == Smaller((page - 1) * limit, Len(active))
            last   == Smaller((page - 1) * limit + limit, Len(active))
            r      == Page(products, page, limit)
        IN  /\ r.data = [k \in 1..(last - first) |-> active[first + k]]
            /\ Len(r.data) <= limit
            /\ page < r.meta.totalPages => Len(r.data) = limit
            /\ page = r.meta.totalPages => Len(r.data) >= 1
            /\ page > r.meta.totalPages => Len(r.data) = 0

\* A full first page was returned while a second, shorter page exists.
C9_Witness ==
    /\ ret.op = "findAll"
    /\ ret.meta.page = 1
    /\ ret.meta.limit = 2
    /\ Len(ret.data) = 2
    /\ ret.meta.total = 3

\* C10: create returns a record with an id no stored record has, isActive
\* true, createdAt = updatedAt and the input's fields (description absent
\* when not given); it is appended at the end of the collection and
\* findOne(id) returns it at once.
C10_Create ==
    [][ (ret'.op = "create" /\ products' # products) =>
           LET dto == ret'.args.dto
               new == ret'.value
           IN  /\ new.id \notin IdsIn(products)
               /\ new.isActive = TRUE
               /\ new.createdAt = new.updatedAt
               /\ new.createdAt = clock
               /\ DOMAIN new = (DOMAIN dto) \cup GeneratedKeys
               /\ \A k \in DOMAIN dto : new[k] = dto[k]
               /\ products' = Append(products, new)
               /\ findOne(products', new.id) = [status |-> "ok", value |-> new] ]_vars

\* A product without description was created after another one.
C10_Witness ==
    /\ ret.op = "create"
    /\ "description" \notin DOMAIN ret.value
    /\ Len(products) >= 2
    /\ products[Len(products)] = ret.value

\* C11: no two records of the collection, active or inactive, have the same
\* id, and the id create gives a new record is the id of no record stored
\* before, soft-deleted ones included.
C11_UniqueIds ==
    [][ /\ \A i, j \in 1..Len(products') :
              products'[i].id = products'[j].id => i = j
        /\ (ret'.op = "create" /\ products' # products) =>
              /\ ret'.value.id \notin IdsIn(products)
              /\ ret'.value.id \notin removed ]_vars

\* A product was created after another one had been soft-deleted.
C11_Witness ==
    /\ ret.op = "create"
    /\ removed # {}
    /\ HasActive(products, ret.value.id)
    /\ \E id \in removed : HasInactive(products, id)

\* C12: inactive is terminal: no call changes any field of a record whose
\* isActive is false; isActive stays false and updatedAt is not refreshed.
C12_InactiveIsTerminal ==
    [][ \A i \in 1..Len(products) :
           products[i].isActive = FALSE =>
               /\ i <= Len(products')
               /\ products'[i] = products[i] ]_vars

\* A remove of an inactive record was refused at a later clock time than
\* the record's updatedAt.
C12_Witness ==
    /\ ret.op = "remove"
    /\ ret.status = "NotFound"
    /\ HasInactive(products, ret.args.id)
    /\ clock > products[IndexOfId(products, ret.args.id)].updatedAt

\* C13: a successful remove(id) returns the record as stored right after
\* the change: isActive false, updatedAt the time of the call, every other
\* key as it was just before the call.
C13_RemoveReturnsStored ==
    [][ (ret'.op = "remove" /\ ret'.status = "ok" /\ <<products, ret>>' # <<products, ret>>) =>
           LET i   == IndexOfId(products, ret'.args.id)
               old == products[i]
               new == ret'.value
           IN  /\ old.isActive = TRUE
               /\ products'[i] = new
               /\ new.isActive = FALSE
               /\ new.updatedAt = clock
               /\ DOMAIN new = DOMAIN old
               /\ \A k \in (DOMAIN old) \ {"isActive", "updatedAt"} : new[k] = old[k] ]_vars

\* The second of two products, one with a description, was removed.
C13_Witness ==
    /\ ret.op = "remove"
    /\ ret.status = "ok"
    /\ "description" \in DOMAIN ret.value
    /\ Len(products) >= 2
    /\ ret.value.isActive = FALSE

\* C14: a findOne, update or remove that fails with NotFound leaves the
\* whole collection as it was.
C14_FailureChangesNothing ==
    [][ (ret'.op \in {"findOne", "update", "remove"} /\ ret'.status = "NotFound") =>
           products' = products ]_vars

\* An update of an id that was never handed out was refused while the
\* collection holds records.
C14_Witness ==
    /\ ret.op = "update"
    /\ ret.status = "NotFound"
    /\ ret.args.id = NonExistentId
    /\ Len(products) >= 1

\* C16: records are never erased: the collection holds as many records as
\* create calls succeeded, no call shrinks it, and every record keeps its
\* position, soft-deleted ones included.
C16_NeverErased ==
    [][ /\ Len(products') = Cardinality(issued')
        /\ Len(products') >= Len(products)
        /\ \A i \in 1..Len(products) : products'[i].id = products[i].id ]_vars

\* A soft-deleted record is still stored in front of an active one.
C16_Witness ==
    /\ Len(products) >= 2
    /\ products[1].isActive = FALSE
    /\ products[2].isActive = TRUE
    /\ products[1].id \in removed

\* C17: every stored record has updatedAt >= createdAt.
C17_UpdatedNotBeforeCreated ==
    \A i \in 1..Len(products) : products[i].updatedAt >= products[i].createdAt

\* A record was soft-deleted at a later clock time than its creation.
C17_Witness ==
    \E i \in 1..Len(products) :
        /\ products[i].isActive = FALSE
        /\ products[i].updatedAt > products[i].createdAt

\* C18: a successful update or remove sets updatedAt to the clock value of
\* the call, strictly greater than before when the clock is later than the
\* previous updatedAt; no call changes createdAt.
C18_Timestamps ==
    [][ /\ \A i \in 1..Len(products) :
              i <= Len(products') /\ products'[i].createdAt = products[i].createdAt
        /\ (ret'.op \in {"update", "remove"} /\ ret'.status = "ok"
                /\ <<products, ret>>' # <<products, ret>>) =>
              LET i == IndexOfId(products, ret'.args.id)
              IN  /\ products'[i].updatedAt = clock
                  /\ clock > products[i].updatedAt =>
                         products'[i].updatedAt > products[i].updatedAt ]_vars

\* An update succeeded at a later clock time than the record's creation.
C18_Witness ==
    /\ ret.op = "update"
    /\ ret.status = "ok"
    /\ ret.value.updatedAt > ret.value.createdAt

\* Page numbers a caller of the service can pass, those below 1 included
\* (only the HTTP layer checks @Min(1)).
DirectPages == (-2..0) \cup Pages

\* C19: findAll returns an empty data list for every out-of-range page: a
\* page whose offset (page-1)*limit is at or past the number of active
\* records, and a page below 1 passed directly to the store; meta still
\* reports the true total and totalPages.
C19_OutOfRangePageIsEmpty ==
    \A page \in DirectPages, limit \in Limits :
        LET total == Len(ActiveInOrder(products))
            r     == Page(products, page, limit)
        IN  (page < 1 \/ (page - 1) * limit >= total) =>
                /\ r.data = <<>>
                /\ r.meta.total = total
                /\ r.meta.totalPages * limit >= total
                /\ (r.meta.totalPages - 1) * limit < total

\* C15: no value handed to a caller is a record held in the store: a caller
\* that assigns to a returned Product changes nothing that findOne or
\* findAll return afterwards.
C15_CallersGetCopies ==
    [][ ret'.op = "callerWrite" =>
           /\ \A id \in AllIds : findOne(products', id) = findOne(products, id)
           /\ \A page \in Pages, limit \in Limits :
                  Page(products', page, limit) = Page(products, page, limit) ]_vars

\* C20: after any sequence of POST, PATCH and DELETE requests every stored
\* record has a non-empty string name, a number price > 0 and an integer
\* stock >= 0, and a PATCH of a record with a body in which a present field
\* breaks the create-time constraint of that field is answered 400.
C20_StoredRecordsValid ==
    /\ \A i \in 1..Len(products) :
          /\ Constraint("name", products[i].name)
          /\ Constraint("price", products[i].price)
          /\ Constraint("stock", products[i].stock)
    /\ (/\ ret.op = "PATCH"
        /\ HasActive(products, ret.args.id)
        /\ \E k \in DOMAIN ret.args.body : ~Constraint(k, ret.args.body[k])) =>
          ret.code = 400

\* A POST body breaks a constraint of name, price or stock.
BreaksCreateConstraint(body) ==
    \/ "name" \notin DOMAIN body
    \/ body.name.t # "string"
    \/ body.name.n = 0
    \/ "price" \notin DOMAIN body
    \/ body.price.t # "number"
    \/ body.price.n <= 0
    \/ "stock" \notin DOMAIN body
    \/ body.stock.t # "number"
    \/ body.stock.n % 2 # 0
    \/ body.stock.n < 0

\* C21: a POST /products whose body breaks a field constraint (name missing,
\* empty or not a string; price missing, not a number or <= 0; stock
\* missing, not an integer or < 0) is answered 400 and the collection is
\* left unchanged: no record is added.
C21_BadPostRejected ==
    [][ (ret'.op = "POST" /\ BreaksCreateConstraint(ret'.args.body)) =>
           /\ ret'.code = 400
           /\ products' = products
           /\ issued' = issued ]_vars

\* A POST with a fractional stock was refused while the collection holds a record.
C21_Witness ==
    /\ ret.op = "POST"
    /\ ret.code = 400
    /\ "stock" \in DOMAIN ret.args.body
    /\ ret.args.body.stock.n % 2 = 1
    /\ Len(products) >= 1

\* C22: a POST or PATCH body with a key other than name, description, price
\* and stock is answered 400 and changes nothing; no request changes the id
\* or createdAt of a record, isActive changes only by DELETE, updatedAt is
\* only ever set to the time of the request, and a new record gets the
\* generated id, isActive true and the time of the request as timestamps.
C22_UnknownFieldsRejected ==
    [][ /\ (/\ ret'.op \in {"POST", "PATCH"}
            /\ ~(DOMAIN ret'.args.body \subseteq {"name", "description", "price", "stock"})) =>
               ret'.code = 400 /\ products' = products
        /\ \A i \in 1..Len(products) :
               /\ i <= Len(products')
               /\ products'[i].id = products[i].id
               /\ products'[i].createdAt = products[i].createdAt
               /\ products'[i].isActive # products[i].isActive => ret'.op = "DELETE"
               /\ products'[i].updatedAt # products[i].updatedAt =>
                      products'[i].updatedAt = clock
        /\ \A i \in (Len(products) + 1)..Len(products') :
               /\ products'[i].id \in issued' \ issued
               /\ products'[i].isActive = TRUE
               /\ products'[i].createdAt = clock
               /\ products'[i].updatedAt = clock ]_vars

\* A PATCH that tries to set isActive on an active record was refused.
C22_Witness ==
    /\ ret.op = "PATCH"
    /\ ret.code = 400
    /\ "isActive" \in DOMAIN ret.args.body
    /\ HasActive(products, ret.args.id)

\* Texts that are not an integer >= 1.
BadPages == { <<"0">>, <<"-", "1">>, <<"1", ".", "5">>, <<"a">>, <<>>, <<"-">>, <<"1", ".", "2", ".", "3">> }

\* Texts that are not an integer in 1..100.
BadLimits == BadPages \cup { <<"1", "0", "1">>, <<"2", "0", "0">> }

\* Texts of the integers 100, 2 (as 2.0) and 7.
GoodTexts == { <<"1", "0", "0">>, <<"2", ".", "0">>, <<"0", "7">> }

\* C23: GET /products with a page that is not an integer >= 1, or a limit
\* that is not an integer in 1..100, is answered 400; every request that
\* gets to findAll has page >= 1 and 1 <= limit <= 100.
C23_QueryValidated ==
    ret.op = "GET" =>
          /\ \A bad \in BadPages :
                 /\ ~ValidQuery(Transform([page |-> bad]))
                 /\ \A good \in GoodTexts :
                        ~ValidQuery(Transform([page |-> bad, limit |-> good]))
          /\ \A bad \in BadLimits :
                 /\ ~ValidQuery(Transform([limit |-> bad]))
                 /\ \A good \in GoodTexts :
                        ~ValidQuery(Transform([page |-> good, limit |-> bad]))
          /\ \A page \in GoodTexts, limit \in GoodTexts :
                 LET dto == PaginationQueryDto(Transform([page |-> page, limit |-> limit]))
                 IN  /\ ValidQuery(Transform([page |-> page, limit |-> limit]))
                     /\ dto.page >= 1 /\ dto.limit >= 1 /\ dto.limit <= 100
          /\ (\/ /\ "page" \in DOMAIN ret.args.query
                  /\ ret.args.query.page \in BadPages
               \/ /\ "limit" \in DOMAIN ret.args.query
                  /\ ret.args.query.limit \in BadLimits) => ret.code = 400
          /\ ret.code = 200 =>
                 /\ ret.body.meta.page >= 1
                 /\ ret.body.meta.limit >= 1
                 /\ ret.body.meta.limit <= 100

\* GET /products?limit=101 was refused while the collection holds a record.
C23_Witness ==
    /\ ret.op = "GET"
    /\ ret.code = 400
    /\ "limit" \in DOMAIN ret.args.query
    /\ ret.args.query.limit = <<"1", "0", "1">>
    /\ Len(products) >= 1

\* C24: a NotFound of findOne, update or remove is answered 404 (GET, PATCH
\* and DELETE on /products/:id); a successful store call is answered 201
\* (POST) or 200 (GET, PATCH, DELETE) with the store's result as body; no
\* other status code is ever sent.
C24_StatusCodes ==
    [][ (ret' # ret \/ products' # products) =>
           /\ ret'.code \in {200, 201, 400, 404}
           /\ ret'.op = "GET:id" =>
                  LET r == findOne(products, ret'.args.id)
                  IN  IF r.status = "NotFound"
                      THEN ret'.code = 404 /\ products' = products
                      ELSE ret'.code = 200 /\ ret'.body = r.value
           /\ (ret'.op = "PATCH" /\ ret'.code # 400) =>
                  LET r == update(products, ret'.args.id, ret'.args.body, clock)
                  IN  IF r.status = "NotFound"
                      THEN ret'.code = 404 /\ products' = products
                      ELSE ret'.code = 200 /\ ret'.body = r.value /\ products' = r.products
           /\ ret'.op = "DELETE" =>
                  LET r == remove(products, ret'.args.id, clock)
                  IN  IF r.status = "NotFound"
                      THEN ret'.code = 404 /\ products' = products
                      ELSE ret'.code = 200 /\ ret'.body = r.value /\ products' = r.products
           /\ (ret'.op = "POST" /\ ret'.code # 400) =>
                  /\ ret'.code = 201
                  /\ products' = Append(products, ret'.body)
           /\ (ret'.op = "GET" /\ ret'.code # 400) =>
                  /\ ret'.code = 200
                  /\ \E page \in 1..2, limit \in {1, 2, 10, 100} :
                         ret'.body = findAll(products, [page |-> page, limit |-> limit]) ]_vars

\* GET /products/:id of a soft-deleted record was answered 404.
C24_Witness ==
    /\ ret.op = "GET:id"
    /\ ret.code = 404
    /\ HasInactive(products, ret.args.id)

\* The collection without the record at position i.
Without(ps, i) == SubSeq(ps, 1, i - 1) \o SubSeq(ps, i + 1, Len(ps))

C26_Defaults ==
    /\ findAll(products, EmptyDto) = findAll(products, [page |-> 1, limit |-> 10])
    /\ findAll(products, EmptyDto).meta.page = 1
    /\ findAll(products, EmptyDto).meta.limit = 10
    /\ \A page \in Pages :
          findAll(products, [page |-> page]) =
              findAll(products, [page |-> page, limit |-> 10])
    /\ \A limit \in Limits :
          findAll(products, [limit |-> limit]) =
              findAll(products, [page |-> 1, limit |-> limit])
    /\ (ret.op = "findAll" /\ ret.args = EmptyDto) =>
          /\ ret.meta.page = 1
          /\ ret.meta.limit = 10
          /\ ret.data = Page(products, 1, 10).data

\* findAll({}) returned two records.
C26_Witness ==
    /\ ret.op = "findAll"
    /\ ret.args = EmptyDto
    /\ Len(ret.data) = 2
    /\ ret.meta.limit = 10

\* C28: findOne and findAll leave the collection as it was, whether they
\* succeed or fail, and the same read on the collection after the call gives
\* the result the call gave.
C28_ReadsAreReadOnly ==
    [][ ret'.op \in {"findOne", "findAll"} =>
           /\ products' = products
           /\ ret'.op = "findOne" =>
                  ret' = Outcome("findOne", ret'.args, findOne(products', ret'.args.id))
           /\ ret'.op = "findAll" =>
                  ret' = Outcome("findAll", ret'.args, findAll(products', ret'.args)) ]_vars

\* findOne returned the second of three stored records.
C28_Witness ==
    /\ ret.op = "findOne"
    /\ ret.status = "ok"
    /\ Len(products) = 3
    /\ ret.value = products[2]

\* C29: create leaves every existing record as it was and appends one
\* record; a successful update or remove changes only the record with the
\* given id and leaves every other record, the record count and every
\* position as they were.
C29_OnlyTargetChanges ==
    [][ /\ (ret'.op = "create" /\ products' # products) =>
              /\ Len(products') = Len(products) + 1
              /\ \A j \in 1..Len(products) : products'[j] = products[j]
        /\ (ret'.op \in {"update", "remove"} /\ ret'.status = "ok"
                /\ <<products, ret>>' # <<products, ret>>) =>
              /\ Len(products') = Len(products)
              /\ \A j \in 1..Len(products) :
                     /\ products'[j].id = products[j].id
                     /\ products[j].id # ret'.args.id => products'[j] = products[j] ]_vars

\* An update succeeded at a later clock time than the last change of
\* another stored record.
C29_Witness ==
    /\ ret.op = "update"
    /\ ret.status = "ok"
    /\ \E j \in 1..Len(products) :
           /\ products[j].id # ret.args.id
           /\ products[j].updatedAt < ret.value.updatedAt

\* The position of the record with this id in a list that holds it.
Pos(list, id) == CHOOSE k \in 1..Len(list) : list[k].id = id

\* Every page of findAll for one limit, one after the other.
Listing(ps, limit) == ConcatPages(ps, Page(ps, 1, limit).meta.totalPages, limit)

Ran(c) == inflight[c].pc = "pending" /\ inflight'[c].pc = "done"

\* Both clients have an answered remove of the same id, sent while the
\* record was active.
RacingRemoves ==
    /\ \A c \in Clients : inflight[c].pc = "done"
    /\ \A c \in Clients : inflight[c].req.op = "remove" /\ inflight[c].sawActive
    /\ \A c, d \in Clients : inflight[c].req = inflight[d].req

====
